---- MODULE Spec2Model ----
(***************************************************************************)
(* Session coordinator of the multiplayer Sudoku backend (src/main.py).    *)
(* The state is the module-level dictionary `rooms` with the Room, Player  *)
(* and GameState objects it owns; there is one action per HTTP route and   *)
(* per socket event handler.  Every action also records which handler ran  *)
(* (`last`) and what it sent back (`out`: the HTTP status of a route, the  *)
(* names of the events a socket handler emitted, or the exception that     *)
(* ended it).                                                              *)
(*                                                                         *)
(* Python objects are records whose fields are exactly the attributes the  *)
(* constructors assign.  Reading an attribute that no constructor assigns  *)
(* raises AttributeError and ends the handler at that line.                *)
(*                                                                         *)
(* The puzzle generator (src/game.py) is modelled beside it: solve as the  *)
(* stack of its activations, get_puzzle one loop turn per step, and        *)
(* count_solutions, is_valid and find_empty as operators.  `sent` records  *)
(* the cells clients name in the events they send.                         *)
(***************************************************************************)
EXTENDS Integers, Sequences, FiniteSets, TLC

\* ---- bounds of the model ------------------------------------------------
MaxRooms == 1      \* rooms created over a run (room identifiers 1..MaxRooms)
MaxPlayers == 2    \* players created over a run (player identifiers 1..MaxPlayers)
NSids == 1         \* socket connections (request.sid ranges over 1..NSids)
GridSize == 2      \* side of the grid (9 in the program)
MaxDigit == 2      \* largest digit of a cell (9 in the program)
MaxClock == 3      \* readings of time.time() over a run
NumShuffles == 2   \* outcomes of random.shuffle(nums) in solve
NumCellOrders == 2 \* outcomes of random.shuffle(cells) in get_puzzle

\* ---- program constants --------------------------------------------------
MAX_HINTS == 3         \* main.py:323  player.hints_used < 3
MAX_MISTAKES == 3      \* main.py:242  player.mistakes >= 3
MISTAKE_PENALTY == 20  \* main.py:241
CORRECT_BONUS == 50    \* main.py:248
HINT_BONUS == 25       \* main.py:330
EASY_LIMIT == 480      \* main.py:20   'easy': 8 * 60

VARIABLES
  rooms,        \* the dictionary rooms: room identifier -> Room
  timers,       \* the threading.Timer objects created so far: timer -> [room_id, state]
  next_room,    \* the next fresh room identifier (uuid4 never repeats)
  next_player,  \* the next fresh player identifier
  clock,        \* the next reading of time.time()
  last,         \* the handler that ran last, with its room_id and player_id
  out,          \* what that handler sent: a status, event names, an exception
  generator,    \* a SudokuGenerator under construction and in get_puzzle
  sent          \* what clients sent: the last cell selection and the last move's cell

app_vars == <<rooms, timers, next_room, next_player, clock, last, out, sent>>
vars == <<rooms, timers, next_room, next_player, clock, last, out, generator, sent>>

\* None is 0 wherever Python holds None in an integer-valued attribute
\* (Player.sid, Room.time_limit, Room.timer, Room.start_time).
None == 0

Sids == 1..NSids
RoomIdInputs == 0..MaxRooms        \* room_id of a request; 0: missing or empty
RoomIds == 1..MaxRooms             \* room_id of an event
PlayerIds == 1..MaxPlayers         \* player_id of an event
Names == {"", "ann"}               \* "" is the missing player_name
Idx == 0..(GridSize - 1)
Cells == Idx \X Idx
Digits == 0..MaxDigit              \* 0 is the empty cell
NoteInputs == {<<>>, <<1>>}         \* data["notes"] of a notes event
NoteCells == {<<0, 0>>}            \* the cells notes events are sent for

\* DIFFICULTY_TIME_LIMITS.get(difficulty): None for a tag the table lacks
Difficulties == {"easy", "custom"}
DIFFICULTY_TIME_LIMITS(difficulty) ==
  IF difficulty = "easy" THEN EASY_LIMIT ELSE None

\* What SudokuGenerator hands to create_room: a solved grid and a puzzle that
\* is this grid with some cells cleared.
SolutionGrid == [c \in Cells |-> ((c[1] + c[2]) % MaxDigit) + 1]
RemovalSets == {Cells, {<<0, 0>>}}
Generated ==
  {[puzzle |-> [c \in Cells |-> IF c \in S THEN 0 ELSE SolutionGrid[c]],
    solution |-> SolutionGrid] : S \in RemovalSets}

GameState(puzzle, solution) ==
  [puzzle |-> puzzle,
   solution |-> solution,
   current_board |-> puzzle,
   board_history |-> <<>>,
   notes_board |-> [c \in Cells |-> <<>>]]

Player(id, name) ==
  [id |-> id, name |-> name, mistakes |-> 0, hints_used |-> 0,
   eliminated |-> FALSE, finished |-> FALSE, game_state |-> None,
   score |-> 0, sid |-> None]

\* Room.__init__ assigns these attributes and no other: there is no game_mode.
Room(id, host_id, puzzle, solution, difficulty) ==
  [id |-> id, players |-> <<>>, host_id |-> host_id,
   game_started |-> FALSE, game_over |-> FALSE,
   puzzle |-> puzzle, solution |-> solution, difficulty |-> difficulty,
   time_limit |-> DIFFICULTY_TIME_LIMITS(difficulty),
   timer |-> None, start_time |-> None]

\* dict helpers: d[k] = v and del d[k]
Put(d, k, v) == [x \in DOMAIN d \cup {k} |-> IF x = k THEN v ELSE d[x]]
Del(d, k) == [x \in DOMAIN d \ {k} |-> d[x]]

\* ---- the puzzle generator (src/game.py) ---------------------------------
\* The grid is Side x Side with boxes of BoxSize x BoxSize (9 and 3 in the
\* program).  A board is a function from GenCells to 0..Side; (r, c) is <<r, c>>.
BoxSize == 2          \* the 3 of is_valid lines 102-106, scaled
Side == BoxSize * BoxSize
GenIdx == 0..(Side - 1)
GenCells == GenIdx \X GenIdx
GenDigits == 1..Side
EmptyBoard == [pos \in GenCells |-> 0]
NoCell == <<>>        \* find_empty's None
Levels == {"easy", "expert"}

\* random.shuffle(nums) of solve: the orders i |-> i * m modulo Side + 1
Shuffle(m) == [i \in 1..Side |-> (i * m) % (Side + 1)]
Shuffles == {Shuffle(m) : m \in {k \in 1..NumShuffles : k % (Side + 1) # 0}}

\* random.shuffle(cells) of get_puzzle: the cell at row-major position
\* (i * m modulo Side * Side + 1) comes i-th
CellAt(k) == <<(k - 1) \div Side, (k - 1) % Side>>
CellOrder(m) == [i \in 1..(Side * Side) |-> CellAt((i * m) % (Side * Side + 1))]
CellOrders ==
  {CellOrder(1 + 5 * (k - 1)) :
     k \in {j \in 1..NumCellOrders : (1 + 5 * (j - 1)) % (Side * Side + 1) # 0}}

\* is_valid without the box check of lines 101-108
is_valid_no_box(board, num, pos) ==
  /\ \A i \in GenIdx : ~(board[<<pos[1], i>>] = num /\ pos[2] # i)
  /\ \A i \in GenIdx : ~(board[<<i, pos[2]>>] = num /\ pos[1] # i)

is_valid(board, num, pos) ==
  /\ \A i \in GenIdx : ~(board[<<pos[1], i>>] = num /\ pos[2] # i)
  /\ \A i \in GenIdx : ~(board[<<i, pos[2]>>] = num /\ pos[1] # i)
  /\ LET box_x == pos[2] \div BoxSize
         box_y == pos[1] \div BoxSize
     IN \A i \in (box_y * BoxSize)..(box_y * BoxSize + BoxSize - 1) :
          \A j \in (box_x * BoxSize)..(box_x * BoxSize + BoxSize - 1) :
            ~(board[<<i, j>>] = num /\ <<i, j>> # pos)

\* the first empty cell in row-major order, or None
find_empty(board) ==
  LET empty == {pos \in GenCells : board[pos] = 0} IN
    IF empty = {} THEN NoCell
    ELSE CHOOSE pos \in empty :
           \A q \in empty : pos[1] * Side + pos[2] <= q[1] * Side + q[2]

RECURSIVE count_solutions(_), count_loop(_, _, _, _)
\* lines 58-65: the digits from num upwards, count so far; stops above 1
count_loop(board, pos, num, count) ==
  IF num > Side THEN count
  ELSE IF is_valid(board, num, pos)
       THEN LET c2 == count + count_solutions([board EXCEPT ![pos] = num])
            IN IF c2 > 1 THEN c2 ELSE count_loop(board, pos, num + 1, c2)
       ELSE count_loop(board, pos, num + 1, count)
count_solutions(board) ==
  LET find == find_empty(board) IN
    IF find = NoCell THEN 1 ELSE count_loop(board, find, 1, 0)

\* get_puzzle lines 19-26, scaled from 81 cells to 16
squares_to_remove(level) == IF level = "easy" THEN 6 ELSE 11

\* line 43 letting every count but 0 pass
RemovalKept_any(count) == count >= 1

\* line 43: a cell stays cleared when count_solutions(board_copy) is 1
RemovalKept(count) == count = 1

\* SudokuGenerator.__init__ up to the call of line 8; frames is the stack of
\* solve's activations, each with its cell and the digits it has yet to try;
\* calling: a call of solve is about to run line 71; ret: the value the
\* innermost finished call returned
SudokuGenerator(level) ==
  [level |-> level, board |-> EmptyBoard, solution |-> EmptyBoard,
   at |-> "__init__", frames |-> <<>>, calling |-> TRUE, ret |-> "none",
   puzzle |-> EmptyBoard, cells |-> <<>>, squares_removed |-> 0]

Top == generator.frames[Len(generator.frames)]
Pop == SubSeq(generator.frames, 1, Len(generator.frames) - 1)

\* solve lines 71-78: return True on a full board, else shuffle the digits
solve_enter ==
  /\ generator.at = "__init__" /\ generator.calling
  /\ LET find == find_empty(generator.board) IN
       IF find = NoCell
       THEN generator' = [generator EXCEPT !.calling = FALSE, !.ret = "True"]
       ELSE \E nums \in Shuffles :
              generator' = [generator EXCEPT !.calling = FALSE,
                                 !.frames = Append(@, [pos |-> find, nums |-> nums])]
  /\ UNCHANGED app_vars

\* solve lines 80-84 and 88: the next digit of the innermost activation
solve_try ==
  /\ generator.at = "__init__" /\ ~generator.calling /\ generator.ret = "none" /\ generator.frames # <<>>
  /\ IF Top.nums = <<>>
     THEN generator' = [generator EXCEPT !.frames = Pop, !.ret = "False"]
     ELSE IF is_valid(generator.board, Head(Top.nums), Top.pos)
          THEN generator' = [generator EXCEPT !.board[Top.pos] = Head(Top.nums),
                                  !.frames[Len(generator.frames)].nums = Tail(@),
                                  !.calling = TRUE]
          ELSE generator' = [generator EXCEPT !.frames[Len(generator.frames)].nums = Tail(@)]
  /\ UNCHANGED app_vars

\* solve lines 84-87: the recursive call has returned
solve_return ==
  /\ generator.at = "__init__" /\ generator.ret # "none" /\ generator.frames # <<>>
  /\ IF generator.ret = "True"
     THEN generator' = [generator EXCEPT !.frames = Pop]
     ELSE generator' = [generator EXCEPT !.board[Top.pos] = 0, !.ret = "none"]
  /\ UNCHANGED app_vars

\* _generate_solution line 12, after the outermost solve has returned
_generate_solution ==
  /\ generator.at = "__init__" /\ generator.ret # "none" /\ generator.frames = <<>>
  /\ generator' = [generator EXCEPT !.solution = generator.board, !.at = "constructed"]
  /\ UNCHANGED app_vars

\* get_puzzle lines 15-32
get_puzzle_enter(cells) ==
  /\ generator.at = "constructed"
  /\ generator' = [generator EXCEPT !.puzzle = generator.solution, !.cells = cells,
                        !.squares_removed = 0, !.at = "get_puzzle"]
  /\ UNCHANGED app_vars

\* get_puzzle lines 34-46: one turn of the loop
get_puzzle_loop ==
  /\ generator.at = "get_puzzle" /\ generator.cells # <<>>
  /\ generator.squares_removed < squares_to_remove(generator.level)
  /\ LET board_copy == [generator.puzzle EXCEPT ![Head(generator.cells)] = 0] IN
       IF RemovalKept(count_solutions(board_copy))
       THEN generator' = [generator EXCEPT !.puzzle = board_copy, !.cells = Tail(@),
                               !.squares_removed = @ + 1]
       ELSE generator' = [generator EXCEPT !.cells = Tail(@)]
  /\ UNCHANGED app_vars

\* get_puzzle lines 35-36 and 48: the loop is left
get_puzzle_return ==
  /\ generator.at = "get_puzzle"
  /\ generator.cells = <<>> \/ generator.squares_removed >= squares_to_remove(generator.level)
  /\ generator' = [generator EXCEPT !.at = "returned"]
  /\ UNCHANGED app_vars

\* no cell selection has been sent
NoSelection == [room_id |-> 0, player_id |-> 0, cell |-> NoCell, at |-> 0]

InitApp ==
  /\ rooms = <<>>
  /\ timers = <<>>
  /\ clock = 1
  /\ next_room = 1
  /\ next_player = 1
  /\ last = [op |-> "init", room_id |-> 0, player_id |-> 0, player_name |-> ""]
  /\ out = <<>>
  /\ sent = [selected |-> NoSelection, moved |-> NoCell]

Init == InitApp /\ generator = SudokuGenerator("easy")

\* the request or event just handled: its name, the room_id it carried, the
\* player_id it carried or was answered with, and the player_name of a request
Asked(op, room_id, player_id, player_name) ==
  last' = [op |-> op, room_id |-> room_id, player_id |-> player_id,
           player_name |-> player_name]
Ran(op, room_id, player_id) == Asked(op, room_id, player_id, "")

\* ---- helpers of the handlers ---------------------------------------------

\* _broadcast_player_info(room_id): emits current_players when the room exists
_broadcast_player_info(rs, room_id) ==
  IF room_id \in DOMAIN rs THEN <<"current_players">> ELSE <<>>

AllDone(room) ==
  \A p \in DOMAIN room.players :
    room.players[p].finished \/ room.players[p].eliminated

\* threading.Timer.cancel(): a timer that has not fired yet never fires
Cancel(tms, t) ==
  IF tms[t].state = "pending" THEN [tms EXCEPT ![t].state = "cancelled"] ELSE tms

\* check_game_over(room_id), on the dictionary rs and the timers tms
check_game_over(rs, tms, room_id) ==
  IF room_id \notin DOMAIN rs THEN [rooms |-> rs, timers |-> tms, out |-> <<>>]
  ELSE IF ~rs[room_id].game_started THEN [rooms |-> rs, timers |-> tms, out |-> <<>>]
  ELSE IF AllDone(rs[room_id])
  THEN [rooms |-> [rs EXCEPT ![room_id].game_started = FALSE,
                             ![room_id].game_over = TRUE],
        timers |-> IF rs[room_id].timer # None
                   THEN Cancel(tms, rs[room_id].timer) ELSE tms,
        out |-> <<"game_over">>]
  ELSE [rooms |-> rs, timers |-> tms, out |-> <<>>]

\* end_game_by_timer(room_id), run by the Timer thread t when its delay is over
end_game_by_timer(t) ==
  /\ t \in DOMAIN timers
  /\ timers[t].state = "pending"
  /\ timers' = [timers EXCEPT ![t].state = "fired"]
  /\ Ran("end_game_by_timer", timers[t].room_id, 0)
  /\ LET room_id == timers[t].room_id IN
       IF room_id \in DOMAIN rooms /\ rooms[room_id].game_started
       THEN /\ rooms' = [rooms EXCEPT ![room_id].game_started = FALSE,
                                      ![room_id].game_over = TRUE]
            /\ out' = <<"game_over">>
       ELSE /\ out' = <<>>
            /\ UNCHANGED rooms
  /\ UNCHANGED <<next_room, next_player, clock>>

\* ---- HTTP routes ---------------------------------------------------------

create_room(player_name, difficulty, gen) ==
  IF player_name = ""
  THEN /\ Asked("create_room", 0, 0, player_name)
       /\ out' = <<"400">>
       /\ UNCHANGED <<rooms, timers, next_room, next_player, clock>>
  ELSE /\ next_room <= MaxRooms
       /\ next_player <= MaxPlayers
       /\ LET room_id == next_room
              host_player == [Player(next_player, player_name) EXCEPT
                                !.game_state = GameState(gen.puzzle, gen.solution)]
              room == [Room(room_id, host_player.id, gen.puzzle, gen.solution, difficulty)
                         EXCEPT !.players = Put(<<>>, host_player.id, host_player)]
          IN /\ rooms' = Put(rooms, room_id, room)
             /\ Asked("create_room", room_id, host_player.id, player_name)
       /\ next_room' = next_room + 1
       /\ next_player' = next_player + 1
       /\ out' = <<"200">>
       /\ UNCHANGED <<timers, clock>>

join_room_route(room_id, player_name) ==
  /\ UNCHANGED <<timers, next_room, clock>>
  /\ IF room_id = 0 \/ player_name = ""
     THEN /\ Asked("join_room", room_id, 0, player_name)
          /\ out' = <<"400">>
          /\ UNCHANGED <<rooms, next_player>>
     ELSE IF room_id \notin DOMAIN rooms
     THEN /\ Asked("join_room", room_id, 0, player_name)
          /\ out' = <<"404">>
          /\ UNCHANGED <<rooms, next_player>>
     ELSE IF rooms[room_id].game_over \/ rooms[room_id].game_started
     THEN /\ Asked("join_room", room_id, 0, player_name)
          /\ out' = <<"403">>
          /\ UNCHANGED <<rooms, next_player>>
     ELSE /\ next_player <= MaxPlayers
          /\ LET room == rooms[room_id]
                 player == [Player(next_player, player_name) EXCEPT
                              !.game_state = GameState(room.puzzle, room.solution)]
             IN /\ rooms' = [rooms EXCEPT ![room_id].players =
                                            Put(room.players, player.id, player)]
                /\ Asked("join_room", room_id, player.id, player_name)
          /\ next_player' = next_player + 1
          /\ out' = <<"200">>

\* ---- socket event handlers -----------------------------------------------

on_join(room_id, player_id, sid) ==
  /\ Ran("join", room_id, player_id)
  /\ UNCHANGED <<timers, next_room, next_player, clock>>
  /\ IF room_id \notin DOMAIN rooms
     THEN out' = <<>> /\ UNCHANGED rooms
     ELSE IF player_id \notin DOMAIN rooms[room_id].players
     THEN out' = <<>> /\ UNCHANGED rooms
     ELSE /\ rooms' = [rooms EXCEPT ![room_id].players[player_id].sid = sid]
          /\ out' = _broadcast_player_info(rooms', room_id)

\* on_start_game without lines 201-206: no test of the issuer, none of the
\* number of players
on_start_game_unguarded(room_id, player_id) ==
  /\ Ran("start_game", room_id, player_id)
  /\ UNCHANGED <<next_room, next_player>>
  /\ IF room_id \notin DOMAIN rooms
     THEN out' = <<>> /\ UNCHANGED <<rooms, timers, clock>>
     ELSE /\ clock <= MaxClock
          /\ clock' = clock + 1
          /\ IF rooms[room_id].time_limit # None
             THEN LET t == Len(timers) + 1 IN
                    /\ timers' = Append(timers, [room_id |-> room_id, state |-> "pending"])
                    /\ rooms' = [rooms EXCEPT ![room_id].game_started = TRUE,
                                              ![room_id].start_time = clock,
                                              ![room_id].timer = t]
             ELSE /\ rooms' = [rooms EXCEPT ![room_id].game_started = TRUE,
                                            ![room_id].start_time = clock]
                  /\ UNCHANGED timers
          /\ out' = <<"game_started">>

on_start_game(room_id, player_id) ==
  /\ Ran("start_game", room_id, player_id)
  /\ UNCHANGED <<next_room, next_player>>
  /\ IF room_id \notin DOMAIN rooms
     THEN out' = <<>> /\ UNCHANGED <<rooms, timers, clock>>
     ELSE IF player_id # rooms[room_id].host_id
     THEN out' = <<>> /\ UNCHANGED <<rooms, timers, clock>>
     ELSE IF "game_mode" \notin DOMAIN rooms[room_id]
     THEN \* line 204 reads room.game_mode, which the Room does not have
          out' = <<"AttributeError">> /\ UNCHANGED <<rooms, timers, clock>>
     ELSE IF rooms[room_id].game_mode = "multiplayer"
             /\ Cardinality(DOMAIN rooms[room_id].players) < 2
     THEN out' = <<"error">> /\ UNCHANGED <<rooms, timers, clock>>
     ELSE /\ clock <= MaxClock
          /\ clock' = clock + 1
          /\ IF rooms[room_id].time_limit # None
             THEN LET t == Len(timers) + 1 IN
                    /\ timers' = Append(timers, [room_id |-> room_id, state |-> "pending"])
                    /\ rooms' = [rooms EXCEPT ![room_id].game_started = TRUE,
                                              ![room_id].start_time = clock,
                                              ![room_id].timer = t]
             ELSE /\ rooms' = [rooms EXCEPT ![room_id].game_started = TRUE,
                                            ![room_id].start_time = clock]
                  /\ UNCHANGED timers
          /\ out' = <<"game_started">>

\* obj.name = value on an object that may not have the attribute yet
SetAttr(obj, name, value) ==
  [f \in DOMAIN obj \cup {name} |-> IF f = name THEN value ELSE obj[f]]

\* line 223 without its last test
NotStarted_never(room) == FALSE

\* line 223: not room.game_started
NotStarted(room) == ~room.game_started

on_move(room_id, player_id, r, c, value) ==
  /\ Ran("move", room_id, player_id)
  /\ UNCHANGED <<next_room, next_player>>
  /\ IF room_id \notin DOMAIN rooms
     THEN out' = <<>> /\ UNCHANGED <<rooms, timers, clock>>
     ELSE IF player_id \notin DOMAIN rooms[room_id].players
             \/ NotStarted(rooms[room_id])
     THEN out' = <<>> /\ UNCHANGED <<rooms, timers, clock>>
     ELSE IF rooms[room_id].players[player_id].finished
             \/ rooms[room_id].players[player_id].eliminated
     THEN out' = <<>> /\ UNCHANGED <<rooms, timers, clock>>
     ELSE
       LET player == rooms[room_id].players[player_id]
           gs == player.game_state
           board == [gs.current_board EXCEPT ![<<r, c>>] = value]
           gs1 == [gs EXCEPT !.board_history = Append(@, gs.current_board),
                             !.current_board = board,
                             !.notes_board[<<r, c>>] = <<>>]
           wrong == value # 0 /\ gs.solution[<<r, c>>] # value
           right == value # 0 /\ gs.solution[<<r, c>>] = value
           mistakes == IF wrong THEN player.mistakes + 1 ELSE player.mistakes
           elim == wrong /\ mistakes >= MAX_MISTAKES
           p1 == [player EXCEPT
                    !.game_state = gs1,
                    !.mistakes = mistakes,
                    !.score = IF wrong THEN @ - MISTAKE_PENALTY
                              ELSE IF right THEN @ + CORRECT_BONUS ELSE @,
                    !.eliminated = IF elim THEN TRUE ELSE @]
           rs1 == [rooms EXCEPT ![room_id].players[player_id] = p1]
           g1 == IF elim THEN check_game_over(rs1, timers, room_id)
                 ELSE [rooms |-> rs1, timers |-> timers, out |-> <<>>]
           out1 == (IF elim THEN <<"player_eliminated", "eliminated">> ELSE <<>>)
                   \o g1.out
                   \o _broadcast_player_info(g1.rooms, room_id)
                   \o <<"game_state_update">>
           fin == (\A cell \in Cells : board[cell] # 0) /\ board = gs.solution
           p2 == SetAttr([g1.rooms[room_id].players[player_id] EXCEPT !.finished = TRUE],
                         "finish_time", clock - g1.rooms[room_id].start_time)
           rs2 == [g1.rooms EXCEPT ![room_id].players[player_id] = p2]
           g2 == check_game_over(rs2, g1.timers, room_id)
       IN IF fin
          THEN /\ rooms' = g2.rooms
               /\ timers' = g2.timers
               /\ clock' = clock + 1
               /\ out' = out1 \o <<"player_finished">> \o g2.out
          ELSE /\ rooms' = g1.rooms
               /\ timers' = g1.timers
               /\ out' = out1
               /\ UNCHANGED clock

on_notes(room_id, player_id, r, c, notes) ==
  /\ Ran("notes", room_id, player_id)
  /\ UNCHANGED <<timers, next_room, next_player, clock>>
  /\ IF room_id \notin DOMAIN rooms
     THEN out' = <<>> /\ UNCHANGED rooms
     ELSE IF player_id \notin DOMAIN rooms[room_id].players
     THEN out' = <<>> /\ UNCHANGED rooms
     ELSE /\ rooms' = [rooms EXCEPT
                         ![room_id].players[player_id].game_state.notes_board[<<r, c>>] = notes]
          /\ out' = <<"game_state_update">>

on_undo(room_id, player_id) ==
  /\ Ran("undo", room_id, player_id)
  /\ UNCHANGED <<timers, next_room, next_player, clock>>
  /\ IF room_id \notin DOMAIN rooms
     THEN out' = <<>> /\ UNCHANGED rooms
     ELSE IF player_id \notin DOMAIN rooms[room_id].players
     THEN out' = <<>> /\ UNCHANGED rooms
     ELSE LET gs == rooms[room_id].players[player_id].game_state IN
            IF gs.board_history # <<>>
            THEN /\ rooms' = [rooms EXCEPT ![room_id].players[player_id].game_state =
                                [gs EXCEPT !.current_board =
                                             gs.board_history[Len(gs.board_history)],
                                           !.board_history =
                                             SubSeq(gs.board_history, 1,
                                                    Len(gs.board_history) - 1)]]
                 /\ out' = <<"game_state_update">>
            ELSE /\ out' = <<"error: Nothing to undo!">>
                 /\ UNCHANGED rooms

\* line 323 with <= for <
HintsLeft_inclusive(player) == player.hints_used <= MAX_HINTS

\* line 323: player.hints_used < 3
HintsLeft(player) == player.hints_used < MAX_HINTS

on_hint(room_id, player_id) ==
  /\ Ran("hint", room_id, player_id)
  /\ UNCHANGED <<timers, next_room, next_player, clock>>
  /\ IF room_id \notin DOMAIN rooms
     THEN out' = <<>> /\ UNCHANGED rooms
     ELSE IF player_id \notin DOMAIN rooms[room_id].players
     THEN out' = <<>> /\ UNCHANGED rooms
     ELSE LET player == rooms[room_id].players[player_id]
              gs == player.game_state
              empty_cells == {cell \in Cells : gs.current_board[cell] = 0}
          IN IF HintsLeft(player)
             THEN IF empty_cells # {}
                  THEN \E cell \in empty_cells :   \* random.choice(empty_cells)
                         /\ rooms' = [rooms EXCEPT ![room_id].players[player_id] =
                              [player EXCEPT
                                 !.game_state.current_board[cell] = gs.solution[cell],
                                 !.hints_used = @ + 1,
                                 !.score = @ + HINT_BONUS]]
                         /\ out' = _broadcast_player_info(rooms', room_id)
                                   \o <<"hint_given", "game_state_update">>
                  ELSE /\ out' = <<"error: No empty cells for a hint!">>
                       /\ UNCHANGED rooms
             ELSE /\ out' = <<"error: No hints left!">>
                  /\ UNCHANGED rooms

\* The rooms, and in a room the players, are visited in dictionary order, which
\* is the order of creation: identifiers are issued in increasing order.
Min(S) == CHOOSE x \in S : \A y \in S : x <= y
HasSid(room, sid) == {p \in DOMAIN room.players : room.players[p].sid = sid}

\* line 369 never true: the empty room is kept
NoPlayerLeft_never(room) == FALSE

\* line 369: len(room_of_player.players) == 0
NoPlayerLeft(room) == Cardinality(DOMAIN room.players) = 0

on_disconnect(sid) ==
  /\ UNCHANGED <<next_room, next_player, clock>>
  /\ LET found == {rid \in DOMAIN rooms : HasSid(rooms[rid], sid) # {}} IN
     IF found = {}
     THEN /\ Ran("disconnect", 0, 0)
          /\ out' = <<>>
          /\ UNCHANGED <<rooms, timers>>
     ELSE
       LET room_id == Min(found)
           player_id == Min(HasSid(rooms[room_id], sid))
           rs1 == [rooms EXCEPT ![room_id].players = Del(@, player_id)]
           room == rs1[room_id]
           out1 == <<"player_left">> \o _broadcast_player_info(rs1, room_id)
           g == check_game_over(rs1, timers, room_id)
       IN /\ Ran("disconnect", room_id, player_id)
          /\ IF room.game_started /\ Cardinality(DOMAIN room.players) > 0
             THEN /\ rooms' = g.rooms
                  /\ timers' = g.timers
                  /\ out' = out1 \o g.out
             ELSE IF NoPlayerLeft(room)
             THEN /\ timers' = IF room.timer # None THEN Cancel(timers, room.timer)
                               ELSE timers
                  /\ rooms' = Del(rs1, room_id)
                  /\ out' = out1
             ELSE /\ rooms' = rs1
                  /\ out' = out1
                  /\ UNCHANGED timers

\* ---- the program ---------------------------------------------------------
\* end_game_by_timer is run only by a Timer that on_start_game creates at line
\* 211.  No run gets there (on_start_game ends at line 204), so no Timer exists
\* and the callback is never a step of the program.

Next ==
  \/ \E n \in Names, d \in Difficulties, g \in Generated : create_room(n, d, g) /\ UNCHANGED <<generator, sent>>
  \/ \E rid \in RoomIdInputs, n \in Names : join_room_route(rid, n) /\ UNCHANGED <<generator, sent>>
  \/ \E rid \in RoomIds, pid \in PlayerIds, sid \in Sids : on_join(rid, pid, sid) /\ UNCHANGED <<generator, sent>>
  \/ \E rid \in RoomIds, pid \in PlayerIds : on_start_game(rid, pid) /\ UNCHANGED <<generator, sent>>
  \/ \E rid \in RoomIds, pid \in PlayerIds, r \in Idx, c \in Idx, v \in Digits :
       on_move(rid, pid, r, c, v) /\ UNCHANGED <<generator, sent>>
  \/ \E rid \in RoomIds, pid \in PlayerIds, cell \in NoteCells, n \in NoteInputs :
       on_notes(rid, pid, cell[1], cell[2], n) /\ UNCHANGED <<generator, sent>>
  \/ \E rid \in RoomIds, pid \in PlayerIds : on_undo(rid, pid) /\ UNCHANGED <<generator, sent>>
  \/ \E rid \in RoomIds, pid \in PlayerIds : on_hint(rid, pid) /\ UNCHANGED <<generator, sent>>
  \/ \E sid \in Sids : on_disconnect(sid) /\ UNCHANGED <<generator, sent>>

Spec == Init /\ [][Next]_vars

\* A client's cell selection.  main.py registers handlers for join, start_game,
\* move, notes, undo, hint and disconnect only: the server drops this event,
\* and no object of the program has a field for a selection or a lock.
select_cell(room_id, player_id, r, c) ==
  /\ Ran("select_cell", room_id, player_id)
  /\ out' = <<>>
  /\ sent' = [sent EXCEPT !.selected = [room_id |-> room_id, player_id |-> player_id,
                                        cell |-> <<r, c>>, at |-> clock]]
  /\ UNCHANGED <<rooms, timers, next_room, next_player, clock, generator>>

\* the handlers a cell lock would involve, with the cells the clients name
NextLock ==
  \/ \E g \in Generated : create_room("ann", "easy", g) /\ UNCHANGED <<generator, sent>>
  \/ \E rid \in RoomIds : join_room_route(rid, "ann") /\ UNCHANGED <<generator, sent>>
  \/ \E rid \in RoomIds, pid \in PlayerIds, sid \in Sids :
       on_join(rid, pid, sid) /\ UNCHANGED <<generator, sent>>
  \/ \E rid \in RoomIds, pid \in PlayerIds :
       on_start_game(rid, pid) /\ UNCHANGED <<generator, sent>>
  \/ \E rid \in RoomIds, pid \in PlayerIds, r \in Idx, c \in Idx :
       select_cell(rid, pid, r, c)
  \/ \E rid \in RoomIds, pid \in PlayerIds, r \in Idx, c \in Idx, v \in Digits :
       /\ on_move(rid, pid, r, c, v)
       /\ sent' = [sent EXCEPT !.moved = <<r, c>>]
       /\ UNCHANGED generator
SpecLock == Init /\ [][NextLock]_vars

\* the generator alone: SudokuGenerator(level) and one get_puzzle on it
InitGen == InitApp /\ \E level \in Levels : generator = SudokuGenerator(level)
NextGen ==
  \/ solve_enter
  \/ solve_try
  \/ solve_return
  \/ _generate_solution
  \/ \E cells \in CellOrders : get_puzzle_enter(cells)
  \/ get_puzzle_loop
  \/ get_puzzle_return
SpecGen == InitGen /\ [][NextGen]_vars

\* ---- claims --------------------------------------------------------------

Range(s) == {s[i] : i \in DOMAIN s}
Lobby(room) == ~room.game_started /\ ~room.game_over
Playing(room) == room.game_started
Over(room) == room.game_over /\ ~room.game_started
NumPlayers(room) == Cardinality(DOMAIN room.players)

\* the step is handler op answering (room_id, player_id)
Step(op, room_id, player_id) ==
  last'.op = op /\ last'.room_id = room_id /\ last'.player_id = player_id

\* Every room of the store is in Lobby and no Timer exists: line 208 of
\* on_start_game is the only assignment of True to game_started, and line 204
\* ends the handler before it.
NeverLeavesLobby ==
  /\ timers = <<>>
  /\ \A rid \in DOMAIN rooms :
       /\ Lobby(rooms[rid])
       /\ rooms[rid].timer = None
       /\ rooms[rid].start_time = None
       /\ \A pid \in DOMAIN rooms[rid].players :
            LET p == rooms[rid].players[pid] IN
              /\ p.mistakes = 0 /\ ~p.eliminated /\ ~p.finished
              /\ p.game_state.board_history = <<>>

\* C1: a start command by the host of a room that is in Lobby and has at least
\* two players puts the room into Playing, records the start timestamp and,
\* when the room has a time limit, schedules the time-limit callback.
C1_HostStartStep ==
  \A rid \in DOMAIN rooms :
    (/\ Step("start_game", rid, rooms[rid].host_id)
     /\ Lobby(rooms[rid])
     /\ NumPlayers(rooms[rid]) >= 2)
    => /\ rid \in DOMAIN rooms'
       /\ Playing(rooms'[rid])
       /\ rooms'[rid].start_time # None
       /\ rooms[rid].time_limit # None
            => /\ rooms'[rid].timer \in DOMAIN timers'
               /\ timers'[rooms'[rid].timer].state = "pending"
C1_HostStartEntersPlaying == [][C1_HostStartStep]_vars

\* C5: a player's hints-used count never exceeds 3; a Hint request with 3
\* hints used reports an error and changes nothing; a successful Hint changes
\* exactly one cell, which was empty, to the Solution's value there, and no
\* Hint changes a filled cell.
C5_HintsBounded ==
  \A rid \in DOMAIN rooms : \A pid \in DOMAIN rooms[rid].players :
    rooms[rid].players[pid].hints_used <= MAX_HINTS
C5_HintStep ==
  \A rid \in DOMAIN rooms : \A pid \in DOMAIN rooms[rid].players :
    Step("hint", rid, pid) =>
      LET p == rooms[rid].players[pid]
          q == rooms'[rid].players[pid]
          b == p.game_state.current_board
          b2 == q.game_state.current_board
      IN /\ p.hints_used >= MAX_HINTS
              => out' = <<"error: No hints left!">> /\ rooms' = rooms
         /\ "hint_given" \in Range(out')
              => /\ \E cell \in Cells :
                      /\ b[cell] = 0
                      /\ b2 = [b EXCEPT ![cell] = p.game_state.solution[cell]]
                      /\ b2[cell] # 0
                 /\ q.hints_used = p.hints_used + 1
         /\ \A cell \in Cells : b[cell] # 0 => b2[cell] = b[cell]
         /\ rooms' # rooms => "hint_given" \in Range(out')
C5_Hints == []C5_HintsBounded /\ [][C5_HintStep]_vars
\* a fourth Hint request was refused while an empty cell was left
C5_Witness ==
  /\ last.op = "hint"
  /\ out = <<"error: No hints left!">>
  /\ last.room_id \in DOMAIN rooms
  /\ last.player_id \in DOMAIN rooms[last.room_id].players
  /\ LET p == rooms[last.room_id].players[last.player_id] IN
       /\ p.hints_used = MAX_HINTS
       /\ \E cell \in Cells : p.game_state.current_board[cell] = 0

\* C6 (the part the program reaches): an Undo on an empty history reports
\* "nothing to undo" and leaves the Board unchanged; an Undo otherwise pops the
\* last snapshot, an accepted Move pushes the Board it found, and nothing else
\* touches the history.  By NeverLeavesLobby the history is always empty.
C6_UndoStep ==
  \A rid \in DOMAIN rooms : \A pid \in DOMAIN rooms[rid].players :
    LET gs == rooms[rid].players[pid].game_state
        gs2 == rooms'[rid].players[pid].game_state
        n == Len(gs.board_history)
    IN /\ Step("undo", rid, pid) =>
            IF n = 0
            THEN out' = <<"error: Nothing to undo!">> /\ rooms' = rooms
            ELSE /\ gs2.current_board = gs.board_history[n]
                 /\ gs2.board_history = SubSeq(gs.board_history, 1, n - 1)
       /\ Step("move", rid, pid) =>
            \/ rooms' = rooms
            \/ gs2.board_history = Append(gs.board_history, gs.current_board)
       /\ (last'.op \notin {"undo", "move"} /\ rid \in DOMAIN rooms'
           /\ pid \in DOMAIN rooms'[rid].players)
            => gs2.board_history = gs.board_history
C6_UndoRestores == [][C6_UndoStep]_vars
\* an Undo found the history empty (N = 0) and was refused
C6_Witness ==
  /\ last.op = "undo"
  /\ out = <<"error: Nothing to undo!">>
  /\ last.room_id \in DOMAIN rooms
  /\ last.player_id \in DOMAIN rooms[last.room_id].players
  /\ rooms[last.room_id].players[last.player_id].game_state.board_history = <<>>

\* C8: a room leaves Lobby for Playing only by a start command of its host with
\* at least two players admitted; a start command of anyone else, or with fewer
\* than two players, leaves the room's state unchanged.
C8_StartStep ==
  \A rid \in DOMAIN rooms :
    /\ (Lobby(rooms[rid]) /\ rid \in DOMAIN rooms' /\ Playing(rooms'[rid]))
         => /\ Step("start_game", rid, rooms[rid].host_id)
            /\ NumPlayers(rooms[rid]) >= 2
    /\ (/\ last'.op = "start_game"
        /\ last'.room_id = rid
        /\ \/ last'.player_id # rooms[rid].host_id
           \/ NumPlayers(rooms[rid]) < 2)
         => rooms' = rooms /\ timers' = timers
C8_StartOnlyByHost == [][C8_StartStep]_vars
\* an admitted player who is not the host asked to start, and the room is as it was
C8_Witness ==
  /\ last.op = "start_game"
  /\ last.room_id \in DOMAIN rooms
  /\ last.player_id \in DOMAIN rooms[last.room_id].players
  /\ last.player_id # rooms[last.room_id].host_id
  /\ Lobby(rooms[last.room_id])

\* C9 (the part the program reaches): a join request for an unknown room is
\* rejected with NotFound (404); one for a room that is Playing or Over is
\* rejected and leaves the player set unchanged, and the player set of a room
\* that has left Lobby never grows.  By NeverLeavesLobby no room leaves Lobby.
C9_JoinStep ==
  /\ (last'.op = "join_room" /\ last'.room_id # 0 /\ last'.player_name # "")
       => /\ last'.room_id \notin DOMAIN rooms
               => out' = <<"404">> /\ rooms' = rooms
          /\ (last'.room_id \in DOMAIN rooms /\ ~Lobby(rooms[last'.room_id]))
               => out' = <<"403">> /\ rooms' = rooms
  /\ \A rid \in DOMAIN rooms :
       (~Lobby(rooms[rid]) /\ rid \in DOMAIN rooms')
         => DOMAIN rooms'[rid].players \subseteq DOMAIN rooms[rid].players
C9_AdmissionOnlyInLobby == [][C9_JoinStep]_vars
\* a well-formed join request named a room the store does not hold
C9_Witness ==
  /\ last.op = "join_room"
  /\ last.room_id # 0
  /\ last.player_name # ""
  /\ last.room_id \notin DOMAIN rooms
  /\ out = <<"404">>

\* C12: every room of the store has at least one player; a Depart that removes
\* the last player of a room removes the room in the same operation, and a
\* Depart that leaves other players keeps the room with the others in it.
C12_NoEmptyRoom == \A rid \in DOMAIN rooms : NumPlayers(rooms[rid]) >= 1
C12_DepartStep ==
  \A rid \in DOMAIN rooms : \A pid \in DOMAIN rooms[rid].players :
    Step("disconnect", rid, pid) =>
      IF DOMAIN rooms[rid].players = {pid}
      THEN rid \notin DOMAIN rooms'
      ELSE /\ rid \in DOMAIN rooms'
           /\ DOMAIN rooms'[rid].players = DOMAIN rooms[rid].players \ {pid}
C12_RoomsHavePlayers == []C12_NoEmptyRoom /\ [][C12_DepartStep]_vars
\* the last player of a room departed and the room is gone
C12_Witness ==
  /\ last.op = "disconnect"
  /\ last.room_id # 0
  /\ last.room_id \notin DOMAIN rooms

\* C17: when a Move or a Hint gives a cell of a Board a non-empty value, the
\* notes of that cell are empty right after the operation.
C17_NotesStep ==
  \A rid \in DOMAIN rooms : \A pid \in DOMAIN rooms[rid].players :
    (last'.op \in {"move", "hint"} /\ rid \in DOMAIN rooms'
     /\ pid \in DOMAIN rooms'[rid].players)
      => LET gs == rooms[rid].players[pid].game_state
             gs2 == rooms'[rid].players[pid].game_state
         IN \A cell \in Cells :
              (gs2 # gs /\ gs2.current_board[cell] # 0
               /\ gs2.current_board[cell] # gs.current_board[cell])
                => gs2.notes_board[cell] = <<>>
C17_NotesCleared == [][C17_NotesStep]_vars

Active(room, pid) ==
  Playing(room) /\ ~room.players[pid].eliminated /\ ~room.players[pid].finished
SameProgress(p, q) ==
  /\ q.game_state.current_board = p.game_state.current_board
  /\ q.score = p.score
  /\ q.hints_used = p.hints_used
C19_GatedStep(ops) ==
  \A rid \in DOMAIN rooms : \A pid \in DOMAIN rooms[rid].players :
    (last'.op \in ops /\ last'.room_id = rid /\ last'.player_id = pid
     /\ ~Active(rooms[rid], pid))
      => /\ rid \in DOMAIN rooms'
         /\ pid \in DOMAIN rooms'[rid].players
         /\ SameProgress(rooms[rid].players[pid], rooms'[rid].players[pid])
C19_HintAnywhere ==
  \A rid \in DOMAIN rooms : \A pid \in DOMAIN rooms[rid].players :
    LET p == rooms[rid].players[pid] IN
      /\ (Step("hint", rid, pid) /\ p.hints_used < MAX_HINTS
          /\ \E cell \in Cells : p.game_state.current_board[cell] = 0)
           => /\ rooms'[rid].players[pid].hints_used = p.hints_used + 1
              /\ rooms'[rid].players[pid].score = p.score + HINT_BONUS
              /\ rooms'[rid].players[pid].game_state.current_board
                   # p.game_state.current_board
      /\ (Step("undo", rid, pid) /\ p.game_state.board_history # <<>>)
           => rooms'[rid].players[pid].game_state.current_board
                = p.game_state.board_history[Len(p.game_state.board_history)]
Rows == {{<<r, c>> : c \in GenIdx} : r \in GenIdx}
Columns == {{<<r, c>> : r \in GenIdx} : c \in GenIdx}
Boxes ==
  {{<<by * BoxSize + i, bx * BoxSize + j>> : i \in 0..(BoxSize - 1), j \in 0..(BoxSize - 1)} :
     by \in 0..(BoxSize - 1), bx \in 0..(BoxSize - 1)}
IsSudoku(board) ==
  \A unit \in Rows \cup Columns \cup Boxes : {board[pos] : pos \in unit} = GenDigits

\* the full grids that extend board, found cell by cell from the digits absent
\* from the cell's row, column and box
RECURSIVE Completions(_)
Completions(board) ==
  LET empty == {pos \in GenCells : board[pos] = 0} IN
    IF empty = {} THEN (IF IsSudoku(board) THEN {board} ELSE {})
    ELSE LET pos == CHOOSE pos \in empty : TRUE
             seen == {board[q] : q \in UNION {unit \in Rows \cup Columns \cup Boxes : pos \in unit}}
         IN UNION {Completions([board EXCEPT ![pos] = d]) : d \in GenDigits \ seen}

\* C14: the puzzle get_puzzle returns has exactly one completion, count_solutions
\* on it is 1, and each of its non-empty cells holds the solution's value.
C14_UniquePuzzle ==
  generator.at = "returned" =>
    /\ count_solutions(generator.puzzle) = 1
    /\ Completions(generator.puzzle) = {generator.solution}
    /\ \A pos \in GenCells :
         generator.puzzle[pos] # 0 => generator.puzzle[pos] = generator.solution[pos]
\* get_puzzle has returned after clearing cells and after putting back at least
\* one cell whose removal left more than one completion
C14_Witness ==
  /\ generator.at = "returned"
  /\ generator.squares_removed >= 1
  /\ Side * Side - Len(generator.cells) > generator.squares_removed

\* C15: solve on the empty grid returns, with True, and leaves a full grid whose
\* rows, columns and boxes are permutations of the digits, whichever of the
\* shuffled orders each activation draws.
C15_Solved ==
  generator.at # "__init__" =>
    /\ generator.ret = "True"
    /\ generator.solution = generator.board
    /\ IsSudoku(generator.solution)
\* Termination is shown by a variant.  Progress lists, most significant first:
\* how far the unwinding of a successful solve has come; then for each depth d
\* of the recursion twice the number of digits activation d has drawn from its
\* shuffled list, plus one when it holds no digit on the board; the depth just
\* above the stack counts as exhausted while a False is being returned.
\* Every step of solve makes Progress greater in the lexicographic order, and
\* Progress ranges over a finite set, so no run takes solve steps for ever;
\* SolveCanStep says that solve is never stuck before it has returned.
Drawn(d) == Side - Len(generator.frames[d].nums)
Progress ==
  LET n == Len(generator.frames) IN
    [i \in 1..(Side * Side + 2) |->
       IF i = 1
       THEN (IF generator.ret = "True" THEN 1 + Side * Side - n ELSE 0)
       ELSE LET d == i - 1 IN
              IF d <= n
              THEN (IF d < n \/ generator.calling \/ generator.ret = "False"
                    THEN 2 * Drawn(d) ELSE 2 * Drawn(d) + 1)
              ELSE IF d = n + 1 /\ generator.ret = "False" THEN 2 * Side + 2 ELSE 0]
LexLess(a, b) ==
  \E i \in DOMAIN a : a[i] < b[i] /\ \A j \in DOMAIN a : j < i => a[j] = b[j]
C15_SolveStep ==
  (generator.at = "__init__" /\ generator' # generator /\ generator'.at = "__init__")
    => LexLess(Progress, Progress')
SolveCanStep ==
  generator.at = "__init__" =>
    generator.calling \/ generator.ret # "none" \/ generator.frames # <<>>
C15_SolveTerminatesValid ==
  []C15_Solved /\ []SolveCanStep /\ [][C15_SolveStep]_vars
\* a solution has been stored that differs from the one ascending digits give
C15_Witness ==
  /\ generator.at = "constructed"
  /\ IsSudoku(generator.solution)
  /\ generator.solution[<<0, 0>>] # 1

\* C13: a Move by player B on a cell that a different player A of the room
\* selected, sent before any time has passed since the selection (so within the
\* 5-second TTL), is rejected with the Locked error and changes nothing.
C13_LockedStep ==
  \A rid \in DOMAIN rooms : \A a \in DOMAIN rooms[rid].players :
    \A b \in DOMAIN rooms[rid].players :
      (/\ a # b
       /\ sent.selected.room_id = rid /\ sent.selected.player_id = a
       /\ sent.selected.at = clock
       /\ Step("move", rid, b)
       /\ sent'.moved = sent.selected.cell)
        => "error" \in Range(out') /\ rooms' = rooms
C13_MoveOnLockedCellRejected == [][C13_LockedStep]_vars

====
